---- MODULE Spec2Model ----
(***************************************************************************)
(* cf-branch-wrangler: per-branch provisioning of D1 / R2 / KV resources,  *)
(* publication of the preview bindings, and cleanup of branch resources.   *)
(*                                                                         *)
(* Names (branch names, resource names) are sequences of one-character     *)
(* strings, so that ===, String.includes and String.startsWith are         *)
(* different relations in the model, as they are in the code.              *)
(***************************************************************************)
EXTENDS Integers, Sequences, FiniteSets, TLC

VARIABLES
    bindings,      \* extractBindings(): kind -> sequence of [binding, key]
    branch,        \* CF_PAGES_BRANCH
    inv,           \* the provider's inventory: kind -> listing of [name, id]
    nextId,        \* the identifier the provider gives to its next resource
    fsMigrations,  \* fs.existsSync(cwd/migrations)
    fsSeed,        \* fs.existsSync(cwd/seed.sql)
    tmpFiles,      \* the temporary wrangler configs present in cwd
    configFormat,  \* format returned by parseWranglerConfig()
    run,           \* "first" or "second" invocation of the tool
    pc,            \* position of main() / provisionAll()
    tokenSet,      \* whether CLOUDFLARE_API_TOKEN was set for this run
    configRead,    \* what parseWranglerConfig and the project name came to
    suffix,        \* getBranchSuffix(branch, productionBranch)
    kindIx,        \* kind being provisioned (index into KindOrder)
    idx,           \* binding being provisioned (index into bindings[kind])
    cur,           \* locals of the provisionD1/R2/KV call in progress
    result,        \* provisionAll's result: kind -> sequence of [id, name]
    creates,       \* create commands issued in this run: <<kind, name>>
    patches,       \* PATCH requests issued in this run
    patchBody,     \* deployment_configs.preview of the last PATCH
    lookups,       \* GET /accounts requests issued in this run
    exitCode,      \* process exit code; Running while the process lives
    fatal,         \* what ended the run: "none" while running or on success
    listFail,      \* whether a list command of this run has failed
    prev,          \* the first run's PATCH body and listFail, kept for the second
    account,       \* CLOUDFLARE_ACCOUNT_ID, the accounts response, config.accountId
    publish,       \* the PATCH: account in its URL, response, error, stderr
    call,          \* pure functions: the function applied last
    args,          \* pure functions: the arguments
    rets,          \* pure functions: the values returned so far
    branchFilter,  \* cleanup: options.branch
    autoConfirm,   \* cleanup: options.autoConfirm
    allResources,  \* cleanup: allDatabases / allBuckets / allNamespaces
    toDelete,      \* cleanup: findBranchResources() result
    cpc,           \* cleanup: position of cleanup()
    cix,           \* cleanup: resource of the flattened deletion list in hand
    deletedCount,  \* cleanup: deletedCount
    skippedCount,  \* cleanup: skippedCount
    failedCount,   \* cleanup: deletions that threw
    lastDelete,    \* cleanup: the last delete command issued: <<kind, name-or-id>>
    journal,       \* cleanup: answers and delete outcomes, in order
    procs          \* concurrent runs: the position and locals of each run

provVars ==
    <<run, pc, tokenSet, configRead, suffix, kindIx, idx, cur, result,
      creates, patches, patchBody, lookups, exitCode, fatal, listFail, prev>>

cleanVars ==
    <<branchFilter, autoConfirm, allResources, toDelete, cpc, cix, deletedCount,
      skippedCount, failedCount, lastDelete, journal>>

apiVars == <<account, publish>>

callVars == <<call, args, rets>>

vars ==
    <<bindings, branch, inv, nextId, fsMigrations, fsSeed, configFormat,
      tmpFiles, provVars, apiVars, cleanVars, callVars, procs>>

-----------------------------------------------------------------------------
(* Bounds of the model *)

\* longest binding list of the kind under study
MaxBind == 2

\* longest initial provider listing of the kind under study
MaxRemote == 2

-----------------------------------------------------------------------------
(* Strings *)

Min(S) == CHOOSE x \in S : \A y \in S : x <= y

\* s.startsWith(p)
StartsWith(s, p) ==
    /\ Len(p) <= Len(s)
    /\ SubSeq(s, 1, Len(p)) = p

\* s.includes(p)
Includes(s, p) ==
    \E i \in 0..(Len(s) - Len(p)) : SubSeq(s, i + 1, i + Len(p)) = p

\* index of the first element whose name is `name`, 0 when there is none
\* (Array.prototype.find(db => db.name === name))
FirstNamed(seq, name) ==
    LET hits == {i \in 1..Len(seq) : seq[i].name = name}
    IN  IF hits = {} THEN 0 ELSE Min(hits)

\* index of the first line that includes `name`, 0 when there is none
\* (for (const line of lines) if (line.includes(name)) return ...)
FirstIncluding(seq, name) ==
    LET hits == {i \in 1..Len(seq) : Includes(seq[i].name, name)}
    IN  IF hits = {} THEN 0 ELSE Min(hits)

-----------------------------------------------------------------------------
(* lib/branch-sanitizer.js *)

DEFAULT_PRODUCTION_BRANCH == <<"m", "a", "i", "n">>

\* the longest name sanitizeBranchName returns
MaxNameLen == 63

LowerAlnum == {"a", "b", "c", "i", "m", "n", "0", "1"}

\* String.prototype.toLowerCase, one character
ToLowerChar(c) ==
    CASE c = "A" -> "a"
      [] c = "B" -> "b"
      [] c = "C" -> "c"
      [] OTHER -> c

\* replace(/[^a-z0-9-]/g, '-'), one character
ReplaceInvalid(c) == IF c \in LowerAlnum \cup {"-"} THEN c ELSE "-"

\* replace(/-+/g, '-')
RECURSIVE CollapseHyphens(_)
CollapseHyphens(s) ==
    IF Len(s) <= 1 THEN s
    ELSE IF s[1] = "-" /\ s[2] = "-" THEN CollapseHyphens(Tail(s))
    ELSE <<s[1]>> \o CollapseHyphens(Tail(s))

\* replace(/^-+/, '')
RECURSIVE StripLeading(_)
StripLeading(s) ==
    IF s # <<>> /\ s[1] = "-" THEN StripLeading(Tail(s)) ELSE s

\* replace(/-+$/, '')
RECURSIVE StripTrailing(_)
StripTrailing(s) ==
    IF s # <<>> /\ s[Len(s)] = "-"
    THEN StripTrailing(SubSeq(s, 1, Len(s) - 1))
    ELSE s

\* substring(0, 63) when longer than 63
Truncate(s) == IF Len(s) > MaxNameLen THEN SubSeq(s, 1, MaxNameLen) ELSE s

\* sanitizeBranchName without line 40, the strip after the truncation
sanitizeBranchName_NoFinalStrip(b) ==
    LET lowered  == [i \in 1..Len(b) |-> ToLowerChar(b[i])]
        replaced == [i \in 1..Len(b) |-> ReplaceInvalid(lowered[i])]
    IN  Truncate(StripTrailing(StripLeading(CollapseHyphens(replaced))))

sanitizeBranchName(b) ==
    LET lowered  == [i \in 1..Len(b) |-> ToLowerChar(b[i])]
        replaced == [i \in 1..Len(b) |-> ReplaceInvalid(lowered[i])]
    IN  StripTrailing(Truncate(StripTrailing(StripLeading(
            CollapseHyphens(replaced)))))

\* getBranchSuffix without lines 53-55, the production-branch test
getBranchSuffix_NoProductionTest(b, productionBranch) ==
    LET sanitized == sanitizeBranchName(b)
    IN  IF sanitized # <<>> THEN <<"-">> \o sanitized ELSE <<>>

getBranchSuffix(b, productionBranch) ==
    IF b = productionBranch THEN <<>>
    ELSE LET sanitized == sanitizeBranchName(b)
         IN  IF sanitized # <<>> THEN <<"-">> \o sanitized ELSE <<>>

isProductionBranch(b, productionBranch) == b = productionBranch

-----------------------------------------------------------------------------
(* Inputs: the declared bindings, the branch, the provider's inventory *)

Kinds == {"d1", "r2", "kv"}

\* provisionAll and cleanup go through the kinds in this order
KindOrder_KvFirst == <<"kv", "r2", "d1">>

KindOrder == <<"d1", "r2", "kv">>

\* null / undefined / false for an identifier
NoId == 0

\* process.exitCode of a process that has not exited
Running == -1

K1 == <<"a">>
K2 == <<"a", "-", "b">>
Keys == {K1, K2}

Branches ==
    { <<"b">>, <<"B", "/", "c">>, <<"/">>, DEFAULT_PRODUCTION_BRANCH }

\* names a provider listing may hold before the tool runs
RemoteNames ==
    << <<"a", "-", "b", "-", "c">>, <<"a", "-", "b">>,
       <<"a", "-", "b", "-", "b">>, <<"a">> >>

SeqsUpTo(S, n) == UNION {[1..m -> S] : m \in 0..n}

\* binding lists of at most n entries; binding names are unique within a kind
BindingLists(n) ==
    { [i \in 1..Len(ks) |-> [binding |-> <<"B", i>>, key |-> ks[i]]] :
        ks \in SeqsUpTo(Keys, n) }

\* listings of at most n resources with distinct names out of pool
Listings(pool, n) ==
    { [i \in 1..Len(ix) |-> [name |-> RemoteNames[ix[i]], id |-> ix[i]]] :
        ix \in { s \in SeqsUpTo(pool, n) :
                   \A i, j \in 1..Len(s) : i # j => s[i] # s[j] } }

-----------------------------------------------------------------------------
(* provisioner.js: discovery *)

\* parseD1CreateOutput: the id when the output holds database_id = "<id>"
parseD1CreateOutput(output) ==
    IF output.parsable THEN output.id ELSE NoId

\* findD1Database: jsonOk / textOk say whether `wrangler d1 list --json` and
\* `wrangler d1 list` succeeded. A text line holds the resource's uuid and its
\* name; it is taken when line.includes(name).
findD1Database(listing, name, jsonOk, textOk) ==
    LET found == IF jsonOk
                 THEN FirstNamed(listing, name)
                 ELSE 0
        line  == FirstIncluding(listing, name)
    IN  IF found # 0 THEN listing[found].id
        ELSE IF textOk /\ line # 0 THEN listing[line].id
        ELSE NoId

\* findR2Bucket with a catch block that reports the bucket as present
findR2Bucket_FoundOnError(listing, name, listOk) ==
    \/ ~listOk
    \/ \E i \in 1..Len(listing) : Includes(listing[i].name, name)

\* findR2Bucket that forgets its return value
findR2Bucket_NeverFound(listing, name, listOk) == FALSE

\* findR2Bucket: output.includes(name) over the whole listing text
findR2Bucket(listing, name, listOk) ==
    /\ listOk
    /\ \E i \in 1..Len(listing) : Includes(listing[i].name, name)

\* findKVNamespace
findKVNamespace(listing, name, jsonOk, textOk) ==
    LET found == IF jsonOk
                 THEN FirstNamed(listing, name)
                 ELSE 0
        line  == FirstIncluding(listing, name)
    IN  IF found # 0 THEN listing[found].id
        ELSE IF textOk /\ line # 0 THEN listing[line].id
        ELSE NoId

\* the outcomes of the list commands one discovery issued, in order
ListCommands(kind, listing, name, jsonOk, textOk) ==
    LET res(ok) == IF ok THEN "ok" ELSE "fail"
    IN  IF kind = "r2" THEN <<res(textOk)>>
        ELSE IF jsonOk /\ FirstNamed(listing, name) # 0
        THEN <<"ok">>
        ELSE <<res(jsonOk), res(textOk)>>

-----------------------------------------------------------------------------
(* index.js and provisioner.js: one provisioning run *)

NoCur ==
    [valid |-> FALSE, kind |-> "d1", target |-> <<>>, lists |-> <<>>,
     exactPresent |-> FALSE, exactId |-> NoId, found |-> FALSE,
     foundId |-> NoId, id |-> NoId, createCalls |-> 0, out |-> "none",
     parsed |-> NoId, relists |-> 0, cmds |-> <<>>, done |-> FALSE]

NoResult == [k \in Kinds |-> <<>>]

NoBody == [k \in Kinds |-> <<>>]

NoPrev == [body |-> NoBody, listFail |-> FALSE]

kind == KindOrder[kindIx]

binding == bindings[kind][idx]

\* `${binding.name}${suffix}` (D1, R2), `${binding.id}${suffix}` (KV)
TargetName(b, sfx) == b.key \o sfx

\* tmpConfigName
TmpConfigName(format) ==
    IF format = "jsonc" THEN ".branch-wrangler.jsonc"
    ELSE ".branch-wrangler.toml"

\* needsTmpConfig
needsTmpConfig == fsMigrations \/ fsSeed

\* where provisionAll goes after binding i of kind number k: the next binding
\* of the kind, the first binding of the next kind that has one, or back to
\* main
Advance(k, i) ==
    IF k >= 1 /\ i < Len(bindings[KindOrder[k]])
    THEN [k |-> k, i |-> i + 1, pc |-> "find"]
    ELSE LET later == {j \in (k + 1)..Len(KindOrder) :
                          Len(bindings[KindOrder[j]]) > 0}
         IN  IF later = {} THEN [k |-> Len(KindOrder), i |-> 0, pc |-> "account"]
             ELSE [k |-> Min(later), i |-> 1, pc |-> "find"]

\* a catch in bin/index.js that reports the error and lets the process end
Exit_AlwaysZero(code, cause) ==
    /\ pc' = "exit"
    /\ exitCode' = 0
    /\ fatal' = cause

\* process.exit(code), or an error that reaches bin/index.js's catch
Exit(code, cause) ==
    /\ pc' = "exit"
    /\ exitCode' = code
    /\ fatal' = cause

\* return from provisionD1/R2/KV and result.<kind>.push(...)
Return(rec) ==
    LET nxt == Advance(kindIx, idx)
    IN  /\ result' = [result EXCEPT ![kind] = Append(@, rec)]
        /\ kindIx' = nxt.k
        /\ idx' = nxt.i
        /\ pc' = nxt.pc
        /\ UNCHANGED <<exitCode, fatal>>

\* the check of the recovered identifier left out
IdMissing_Never(id) == FALSE

\* if (!dbId) / if (!namespaceId): no identifier was recovered
IdMissing(id) == id = NoId

\* the provider rejects a second resource of the same name
Taken(k, name) == \E i \in 1..Len(inv[k]) : inv[k][i].name = name

inputs == <<bindings, branch, fsMigrations, fsSeed, configFormat>>

\* main() with a getEnv() that validates nothing
GetEnv_NoValidation ==
    /\ pc = "getEnv"
    /\ \E token \in BOOLEAN : tokenSet' = token
    /\ pc' = "parse"
    /\ UNCHANGED <<procs, callVars, apiVars, inputs, inv, nextId, tmpFiles,
                   run, configRead, suffix, kindIx, idx, cur, result, creates,
                   patches, patchBody, lookups, exitCode, fatal, listFail,
                   prev, cleanVars>>

\* getEnv(): throws when CLOUDFLARE_API_TOKEN is not set
GetEnv ==
    /\ pc = "getEnv"
    /\ \E token \in BOOLEAN :
         /\ tokenSet' = token
         /\ IF token
            THEN pc' = "parse" /\ UNCHANGED <<exitCode, fatal>>
            ELSE Exit(1, "config")
    /\ UNCHANGED <<procs, callVars, apiVars, inputs, inv, nextId, tmpFiles,
                   run, configRead, suffix, kindIx, idx, cur, result, creates,
                   patches, patchBody, lookups, listFail, prev, cleanVars>>

\* parseWranglerConfig() and the project name: throws when no config file is
\* found, or when CF_PAGES_PROJECT_NAME is unset and the config has no name
ParseConfig ==
    /\ pc = "parse"
    /\ \E fileFound, projectEnv, configName \in BOOLEAN :
         IF ~fileFound
         THEN configRead' = "no file" /\ Exit(1, "config")
         ELSE IF ~projectEnv /\ ~configName
         THEN configRead' = "no name" /\ Exit(1, "config")
         ELSE /\ configRead' = "ok"
              /\ pc' = "branch"
              /\ UNCHANGED <<exitCode, fatal>>
    /\ UNCHANGED <<procs, callVars, apiVars, inputs, inv, nextId, tmpFiles,
                   run, tokenSet, suffix, kindIx, idx, cur, result, creates,
                   patches, patchBody, lookups, listFail, prev, cleanVars>>

\* the production-branch and the empty-suffix short-circuits, then
\* provisionAll's first binding
BranchCheck ==
    /\ pc = "branch"
    /\ LET sfx == getBranchSuffix(branch, DEFAULT_PRODUCTION_BRANCH)
           nxt == Advance(0, 0)
       IN  IF isProductionBranch(branch, DEFAULT_PRODUCTION_BRANCH)
           THEN Exit(0, "none") /\ UNCHANGED <<suffix, kindIx, idx>>
           ELSE /\ suffix' = sfx
                /\ IF sfx = <<>>
                   THEN Exit(0, "none") /\ UNCHANGED <<kindIx, idx>>
                   ELSE /\ kindIx' = nxt.k
                        /\ idx' = nxt.i
                        /\ pc' = nxt.pc
                        /\ UNCHANGED <<exitCode, fatal>>
    /\ UNCHANGED <<procs, callVars, apiVars, inputs, inv, nextId, tmpFiles, run, tokenSet, configRead,
                   cur, result, creates, patches, patchBody, lookups,
                   listFail, prev, cleanVars>>

\* a lookup that finds nothing, whatever the provider lists
FindResult_NotFound(k, listing, name, jsonOk, textOk) == NoId

\* the discovery of provisionD1 / provisionR2 / provisionKV
FindResult(k, listing, name, jsonOk, textOk) ==
    CASE k = "d1" -> findD1Database(listing, name, jsonOk, textOk)
      [] k = "r2" -> IF findR2Bucket(listing, name, textOk) THEN 1 ELSE NoId
      [] k = "kv" -> findKVNamespace(listing, name, jsonOk, textOk)

\* where a provisioning call goes once it holds its resource
AfterFound(k) == IF k = "d1" THEN "tmp" ELSE "return"

Find ==
    /\ pc = "find"
    /\ \E jsonOk, textOk \in BOOLEAN :
         LET name   == TargetName(binding, suffix)
             lists  == ListCommands(kind, inv[kind], name, jsonOk, textOk)
             got    == FindResult(kind, inv[kind], name, jsonOk, textOk)
             exact  == FirstNamed(inv[kind], name)
         IN  /\ cur' = [valid |-> TRUE, kind |-> kind, target |-> name,
                        lists |-> lists,
                        exactPresent |-> exact # 0,
                        exactId |-> IF exact # 0 THEN inv[kind][exact].id
                                    ELSE NoId,
                        found |-> got # NoId,
                        foundId |-> IF kind = "r2" THEN NoId ELSE got,
                        id |-> IF kind = "r2" THEN NoId ELSE got,
                        createCalls |-> 0, out |-> "none", parsed |-> NoId,
                        relists |-> 0, cmds |-> <<>>, done |-> FALSE]
             /\ listFail' = (listFail \/ \E i \in 1..Len(lists) : lists[i] = "fail")
             /\ pc' = IF got # NoId THEN AfterFound(kind) ELSE "create"
    /\ UNCHANGED <<procs, callVars, apiVars, inputs, inv, nextId, tmpFiles, run, tokenSet, configRead,
                   suffix, kindIx, idx, result, creates, patches, patchBody,
                   lookups, exitCode, fatal, prev, cleanVars>>

\* provisionD1, lines 127-152: `wrangler d1 create`, outside any try block
CreateD1 ==
    /\ pc = "create"
    /\ kind = "d1"
    /\ creates' = Append(creates, <<"d1", cur.target>>)
    /\ \E out \in {"fail", "parsed", "unparsed"} :
         IF out = "fail" \/ Taken("d1", cur.target)
         THEN /\ Exit(1, "create")
              /\ cur' = [cur EXCEPT !.createCalls = @ + 1, !.out = "fail"]
              /\ UNCHANGED <<inv, nextId>>
         ELSE LET dbId == parseD1CreateOutput(
                              [parsable |-> out = "parsed", id |-> nextId])
              IN  /\ inv' = [inv EXCEPT !["d1"] =
                                Append(@, [name |-> cur.target, id |-> nextId])]
                  /\ nextId' = nextId + 1
                  /\ cur' = [cur EXCEPT !.createCalls = @ + 1, !.out = out,
                                        !.parsed = dbId, !.id = dbId]
                  /\ pc' = IF IdMissing(dbId) THEN "refind" ELSE "tmp"
                  /\ UNCHANGED <<exitCode, fatal>>
    /\ UNCHANGED <<procs, callVars, apiVars, inputs, tmpFiles, run, tokenSet, configRead, suffix,
                   kindIx, idx, result, patches, patchBody, lookups, listFail,
                   prev, cleanVars>>

\* provisionD1, lines 140-148: the second listing, and the fatal loss of the id
RefindD1 ==
    /\ pc = "refind"
    /\ \E jsonOk, textOk \in BOOLEAN :
         LET dbId  == findD1Database(inv["d1"], cur.target, jsonOk, textOk)
             lists == ListCommands("d1", inv["d1"], cur.target, jsonOk, textOk)
         IN  /\ listFail' = (listFail \/ \E i \in 1..Len(lists) : lists[i] = "fail")
             /\ cur' = [cur EXCEPT !.id = dbId, !.relists = @ + 1]
             /\ IF IdMissing(dbId)
                THEN Exit(1, "idloss")
                ELSE pc' = "tmp" /\ UNCHANGED <<exitCode, fatal>>
    /\ UNCHANGED <<procs, callVars, apiVars, inputs, inv, nextId, tmpFiles, run, tokenSet, configRead,
                   suffix, kindIx, idx, result, creates, patches, patchBody,
                   lookups, prev, cleanVars>>

\* provisionD1, lines 156-167: fs.writeFileSync(tmpConfig, content)
WriteTmp ==
    /\ pc = "tmp"
    /\ tmpFiles' = IF needsTmpConfig
                   THEN tmpFiles \cup {TmpConfigName(configFormat)}
                   ELSE tmpFiles
    /\ pc' = "migrate"
    /\ UNCHANGED <<procs, callVars, apiVars, inputs, inv, nextId, run, tokenSet, configRead, suffix,
                   kindIx, idx, cur, result, creates, patches, patchBody,
                   lookups, exitCode, fatal, listFail, prev, cleanVars>>

\* cur after a migrations / seed command has run with outcome ok
Ran(cmd, ok) == [cur EXCEPT !.cmds = Append(@, [cmd |-> cmd, ok |-> ok])]

\* lines 171-182 with a catch block that only reports the failure
Migrate_FailureReported ==
    /\ pc = "migrate"
    /\ \E ok \in BOOLEAN :
         cur' = IF fsMigrations THEN Ran("migrations apply", ok) ELSE cur
    /\ pc' = "seed"
    /\ UNCHANGED <<procs, callVars, apiVars, inputs, inv, nextId, tmpFiles, run,
                   tokenSet, configRead, suffix, kindIx, idx, result, creates, patches,
                   patchBody, lookups, exitCode, fatal, listFail, prev,
                   cleanVars>>

\* provisionD1, lines 171-182: process.exit(1) ends the process where it
\* stands; the finally block of line 197 is not run
Migrate ==
    /\ pc = "migrate"
    /\ \E ok \in BOOLEAN :
         /\ cur' = IF fsMigrations THEN Ran("migrations apply", ok) ELSE cur
         /\ IF fsMigrations /\ ~ok
            THEN Exit(1, "migration")
            ELSE pc' = "seed" /\ UNCHANGED <<exitCode, fatal>>
    /\ UNCHANGED <<procs, callVars, apiVars, inputs, inv, nextId, tmpFiles, run,
                   tokenSet, configRead, suffix, kindIx, idx, result, creates, patches,
                   patchBody, lookups, listFail, prev, cleanVars>>

\* provisionD1, lines 185-196
Seed ==
    /\ pc = "seed"
    /\ \E ok \in BOOLEAN :
         /\ cur' = IF fsSeed THEN Ran("execute seed.sql", ok) ELSE cur
         /\ IF fsSeed /\ ~ok
            THEN Exit(1, "seed")
            ELSE pc' = "finally" /\ UNCHANGED <<exitCode, fatal>>
    /\ UNCHANGED <<procs, callVars, apiVars, inputs, inv, nextId, tmpFiles, run,
                   tokenSet, configRead, suffix, kindIx, idx, result, creates, patches,
                   patchBody, lookups, listFail, prev, cleanVars>>

\* provisionD1, lines 197-204: the finally block, then return { id, name }
Finally ==
    /\ pc = "finally"
    /\ tmpFiles' = IF needsTmpConfig
                   THEN tmpFiles \ {TmpConfigName(configFormat)}
                   ELSE tmpFiles
    /\ cur' = [cur EXCEPT !.done = TRUE]
    /\ Return([id |-> cur.id, name |-> cur.target])
    /\ UNCHANGED <<procs, callVars, apiVars, inputs, inv, nextId, run, tokenSet, configRead, suffix,
                   creates, patches, patchBody, lookups, listFail, prev,
                   cleanVars>>

\* provisionR2, lines 220-231
CreateR2 ==
    /\ pc = "create"
    /\ kind = "r2"
    /\ creates' = Append(creates, <<"r2", cur.target>>)
    /\ \E ok \in BOOLEAN :
         IF ~ok \/ Taken("r2", cur.target)
         THEN /\ Exit(1, "create")
              /\ cur' = [cur EXCEPT !.createCalls = @ + 1, !.out = "fail"]
              /\ UNCHANGED <<inv, nextId>>
         ELSE /\ inv' = [inv EXCEPT !["r2"] =
                            Append(@, [name |-> cur.target, id |-> nextId])]
              /\ nextId' = nextId + 1
              /\ cur' = [cur EXCEPT !.createCalls = @ + 1, !.out = "created"]
              /\ pc' = "return"
              /\ UNCHANGED <<exitCode, fatal>>
    /\ UNCHANGED <<procs, callVars, apiVars, inputs, tmpFiles, run, tokenSet, configRead, suffix,
                   kindIx, idx, result, patches, patchBody, lookups, listFail,
                   prev, cleanVars>>

\* provisionKV, lines 252-276
CreateKV ==
    /\ pc = "create"
    /\ kind = "kv"
    /\ creates' = Append(creates, <<"kv", cur.target>>)
    /\ \E out \in {"fail", "parsed", "unparsed"} :
         IF out = "fail" \/ Taken("kv", cur.target)
         THEN /\ Exit(1, "create")
              /\ cur' = [cur EXCEPT !.createCalls = @ + 1, !.out = "fail"]
              /\ UNCHANGED <<inv, nextId>>
         ELSE LET namespaceId == IF out = "parsed" THEN nextId ELSE NoId
              IN  /\ inv' = [inv EXCEPT !["kv"] =
                                Append(@, [name |-> cur.target, id |-> nextId])]
                  /\ nextId' = nextId + 1
                  /\ cur' = [cur EXCEPT !.createCalls = @ + 1, !.out = out,
                                        !.parsed = namespaceId,
                                        !.id = namespaceId]
                  /\ IF IdMissing(namespaceId)
                     THEN Exit(1, "idloss")
                     ELSE pc' = "return" /\ UNCHANGED <<exitCode, fatal>>
    /\ UNCHANGED <<procs, callVars, apiVars, inputs, tmpFiles, run, tokenSet, configRead, suffix,
                   kindIx, idx, result, patches, patchBody, lookups, listFail,
                   prev, cleanVars>>

\* provisionR2 line 236 and provisionKV line 281: return { name } / { id }
ReturnBinding ==
    /\ pc = "return"
    /\ cur' = [cur EXCEPT !.done = TRUE]
    /\ Return(IF kind = "r2" THEN [name |-> cur.target] ELSE [id |-> cur.id])
    /\ UNCHANGED <<procs, callVars, apiVars, inputs, inv, nextId, tmpFiles, run, tokenSet, configRead,
                   suffix, creates, patches, patchBody, lookups, listFail,
                   prev, cleanVars>>

-----------------------------------------------------------------------------
(* api-client.js *)

\* index.js lines 67-71: bindings.<kind>.map((b, i) =>
\*     ({ ...provisioned.<kind>[i], binding: b.binding }))
\* apiBindings with the provisioned resources taken in reverse order
apiBindings_Reversed(k) ==
    [i \in 1..Len(bindings[k]) |->
        [res |-> result[k][Len(bindings[k]) + 1 - i],
         binding |-> bindings[k][i].binding]]

\* index.js lines 67-71: bindings[k].map((b, i) => ({ ...provisioned[k][i],
\* binding: b.binding }))
apiBindings(k) ==
    [i \in 1..Len(bindings[k]) |-> [res |-> result[k][i],
                                    binding |-> bindings[k][i].binding]]

Max(S) == CHOOSE x \in S : \A y \in S : x >= y

\* the object built by `for (const e of entries) map[e.binding] = value(e)`:
\* a later entry of the same binding name overwrites an earlier one
MapOf(entries) ==
    [n \in {entries[i].binding : i \in 1..Len(entries)} |->
        entries[Max({i \in 1..Len(entries) : entries[i].binding = n})].res]

\* deployment_configs.preview with kvMap entries written as { id }
PreviewConfig_KvById ==
    LET d1Map == MapOf(apiBindings("d1"))
        r2Map == MapOf(apiBindings("r2"))
        kvMap == MapOf(apiBindings("kv"))
    IN  [d1 |-> [n \in DOMAIN d1Map |-> [id |-> d1Map[n].id]],
         r2 |-> [n \in DOMAIN r2Map |-> [name |-> r2Map[n].name]],
         kv |-> [n \in DOMAIN kvMap |-> [id |-> kvMap[n].id]]]

\* deployment_configs.preview
PreviewConfig ==
    LET d1Map == MapOf(apiBindings("d1"))
        r2Map == MapOf(apiBindings("r2"))
        kvMap == MapOf(apiBindings("kv"))
    IN  [d1 |-> [n \in DOMAIN d1Map |-> [id |-> d1Map[n].id]],
         r2 |-> [n \in DOMAIN r2Map |-> [name |-> r2Map[n].name]],
         kv |-> [n \in DOMAIN kvMap |-> [namespace_id |-> kvMap[n].id]]]

\* CLOUDFLARE_ACCOUNT_ID: unset (or empty), or an account identifier
AccountEnvs == {"", "acct-env"}

\* responses of GET /accounts?per_page=1: response.ok and data.result
AccountResponses ==
    { [ok |-> FALSE, result |-> <<>>],
      [ok |-> TRUE,  result |-> <<>>],
      [ok |-> TRUE,  result |-> <<"acct-1">>],
      [ok |-> TRUE,  result |-> <<"acct-1", "acct-2">>] }

NoResponse == [ok |-> FALSE, result |-> <<>>]

NoAccount == [env |-> "", asked |-> FALSE, response |-> NoResponse, id |-> ""]

\* fetchAccountId with data.result[length - 1] in place of data.result[0]
fetchAccountId_Last(response) ==
    IF ~response.ok \/ response.result = <<>>
    THEN [threw |-> TRUE, id |-> ""]
    ELSE [threw |-> FALSE, id |-> response.result[Len(response.result)]]

\* fetchAccountId: throws on a response that is not ok and on an empty
\* result, returns data.result[0].id otherwise
fetchAccountId(response) ==
    IF ~response.ok
    THEN [threw |-> TRUE, id |-> ""]
    ELSE IF response.result = <<>>
    THEN [threw |-> TRUE, id |-> ""]
    ELSE [threw |-> FALSE, id |-> response.result[1]]

\* index.js lines 74-78: the accounts endpoint is asked when
\* config.accountId (CLOUDFLARE_ACCOUNT_ID, read by getEnv and first used
\* here) is not set
DeriveAccount ==
    /\ pc = "account"
    /\ \E env \in AccountEnvs, response \in AccountResponses :
         IF env # ""
         THEN /\ account' = [env |-> env, asked |-> FALSE,
                             response |-> NoResponse, id |-> env]
              /\ pc' = "patch"
              /\ UNCHANGED <<lookups, exitCode, fatal>>
         ELSE LET got == fetchAccountId(response)
              IN  /\ lookups' = lookups + 1
                  /\ account' = [env |-> env, asked |-> TRUE,
                                 response |-> response, id |-> got.id]
                  /\ IF got.threw
                     THEN Exit(1, "account")
                     ELSE pc' = "patch" /\ UNCHANGED <<exitCode, fatal>>
    /\ UNCHANGED <<procs, callVars, publish, inputs, inv, nextId, tmpFiles, run,
                   tokenSet, configRead, suffix, kindIx, idx, cur, result, creates,
                   patches, patchBody, listFail, prev, cleanVars>>

\* responses of the PATCH: a network error (fetch rejects), or a status, its
\* text and a body; response.ok is true for the statuses 200..299
PatchResponses ==
    { [net |-> FALSE, ok |-> TRUE,  status |-> "200", statusText |-> "OK",
       body |-> "{success}"],
      [net |-> FALSE, ok |-> FALSE, status |-> "403",
       statusText |-> "Forbidden", body |-> "{bad token}"],
      [net |-> FALSE, ok |-> FALSE, status |-> "500",
       statusText |-> "Internal Server Error", body |-> "{upstream}"],
      [net |-> TRUE,  ok |-> FALSE, status |-> "", statusText |-> "",
       body |-> ""] }

NoPublish ==
    [url |-> "", sent |-> FALSE, net |-> FALSE, ok |-> FALSE, status |-> "",
     body |-> "", error |-> <<>>, stderr |-> <<>>]

\* line 84: new Error(`Cloudflare API error: ${status} ${statusText}`)
ApiError(response) ==
    <<"Cloudflare API error:", response.status, response.statusText>>

\* lines 80-84 and 91-93: what console.error is given before the rethrow
ErrorLog(response, message) ==
    (IF response.net THEN <<>>
     ELSE <<"API request failed:", response.status, response.statusText,
            "Response body:", response.body>>)
    \o <<"Failed to patch preview bindings:">> \o message

\* patchPreviewBindings: one PATCH; a response that is not ok, or a network
\* error, is rethrown to main and reaches the catch of bin/index.js
Patch ==
    /\ pc = "patch"
    /\ patches' = patches + 1
    /\ patchBody' = PreviewConfig
    /\ \E response \in PatchResponses :
         LET message == IF response.net THEN <<"fetch failed">>
                        ELSE ApiError(response)
         IN  IF response.ok
             THEN /\ publish' = [url |-> account.id, sent |-> TRUE,
                                 net |-> FALSE, ok |-> TRUE,
                                 status |-> response.status,
                                 body |-> response.body,
                                 error |-> <<>>, stderr |-> <<>>]
                  /\ Exit(0, "none")
             ELSE /\ publish' = [url |-> account.id, sent |-> TRUE,
                                 net |-> response.net, ok |-> FALSE,
                                 status |-> response.status,
                                 body |-> response.body,
                                 error |-> message,
                                 stderr |-> ErrorLog(response, message)
                                     \o <<"cf-branch-wrangler failed:">>
                                     \o message]
                  /\ Exit(1, "publish")
    /\ UNCHANGED <<procs, callVars, account, inputs, inv, nextId, tmpFiles, run,
                   tokenSet, configRead, suffix, kindIx, idx, cur, result, creates,
                   lookups, listFail, prev, cleanVars>>

\* the tool is run again on the same branch, the same bindings and the
\* inventory the first run left, after the first run has published
SecondRun ==
    /\ pc = "exit"
    /\ run = "first"
    /\ exitCode = 0
    /\ patches = 1
    /\ run' = "second"
    /\ prev' = [body |-> patchBody, listFail |-> listFail]
    /\ pc' = "getEnv"
    /\ tokenSet' = FALSE
    /\ configRead' = "unread"
    /\ suffix' = <<>>
    /\ kindIx' = 1
    /\ idx' = 0
    /\ cur' = NoCur
    /\ result' = NoResult
    /\ creates' = <<>>
    /\ patches' = 0
    /\ patchBody' = NoBody
    /\ lookups' = 0
    /\ exitCode' = Running
    /\ fatal' = "none"
    /\ listFail' = FALSE
    /\ account' = NoAccount
    /\ publish' = NoPublish
    /\ UNCHANGED <<procs, callVars, inputs, inv, nextId, tmpFiles, cleanVars>>

-----------------------------------------------------------------------------
(* Specification of provisioning *)

NoFilter == [given |-> FALSE, value |-> <<>>]

\* nothing was asked and no delete command was issued
NoEvent ==
    [ix |-> 0, ev |-> "none", declined |-> 0, succeeded |-> 0, failed |-> 0]

CleanupOff ==
    /\ branchFilter = NoFilter
    /\ autoConfirm = FALSE
    /\ allResources = NoResult
    /\ toDelete = NoResult
    /\ cpc = "off"
    /\ cix = 0
    /\ deletedCount = 0
    /\ skippedCount = 0
    /\ failedCount = 0
    /\ lastDelete = <<>>
    /\ journal = NoEvent

\* no concurrent runs are under study
NoProcs == <<>>

NoArgs == [b |-> <<>>, b2 |-> <<>>, p |-> <<>>, key |-> <<>>]

\* no pure function is under study
CallOff ==
    /\ call = "off"
    /\ args = NoArgs
    /\ rets = <<>>

RunStart ==
    /\ run = "first"
    /\ pc = "getEnv"
    /\ tokenSet = FALSE
    /\ configRead = "unread"
    /\ suffix = <<>>
    /\ kindIx = 1
    /\ idx = 0
    /\ cur = NoCur
    /\ result = NoResult
    /\ creates = <<>>
    /\ patches = 0
    /\ patchBody = NoBody
    /\ lookups = 0
    /\ exitCode = Running
    /\ fatal = "none"
    /\ listFail = FALSE
    /\ prev = NoPrev
    /\ account = NoAccount
    /\ publish = NoPublish

\* names of RemoteNames that provisioning may meet in a listing
ProvPool == 1..3

\* a declaration of one binding per kind, against an empty inventory
OneOfEach == [k \in Kinds |-> [i \in 1..1 |-> [binding |-> <<"B", i>>, key |-> K1]]]

\* two databases, one bucket and one namespace, against an empty inventory
Mixed ==
    [k \in Kinds |->
        IF k = "d1"
        THEN <<[binding |-> <<"B", 1>>, key |-> K1],
               [binding |-> <<"B", 2>>, key |-> K2]>>
        ELSE <<[binding |-> <<"B", 1>>, key |-> K1]>>]

\* Either one kind is studied alone, with up to MaxBind bindings and up to
\* MaxRemote listed resources, or each kind declares one binding. The
\* migrations directory, seed.sql and the format of the config file are read
\* for D1 bindings only.
Init ==
    /\ \/ \E focus \in Kinds :
            /\ bindings \in [Kinds -> BindingLists(MaxBind)]
            /\ \A k \in Kinds \ {focus} : bindings[k] = <<>>
            /\ inv \in [Kinds -> Listings(ProvPool, MaxRemote)]
            /\ \A k \in Kinds \ {focus} : inv[k] = <<>>
       \/ /\ bindings \in {OneOfEach, Mixed}
          /\ inv = NoResult
    /\ branch \in Branches
    /\ nextId = Len(RemoteNames) + 1
    /\ fsMigrations \in BOOLEAN
    /\ fsSeed \in BOOLEAN
    /\ configFormat \in {"toml", "jsonc"}
    /\ bindings["d1"] = <<>> => ~fsMigrations /\ ~fsSeed /\ configFormat = "toml"
    /\ tmpFiles = {}
    /\ RunStart
    /\ CleanupOff
    /\ CallOff
    /\ procs = NoProcs

Next ==
    \/ GetEnv
    \/ ParseConfig
    \/ BranchCheck
    \/ Find
    \/ CreateD1
    \/ RefindD1
    \/ WriteTmp
    \/ Migrate
    \/ Seed
    \/ Finally
    \/ CreateR2
    \/ CreateKV
    \/ ReturnBinding
    \/ DeriveAccount
    \/ Patch
    \/ SecondRun

Spec == Init /\ [][Next]_vars

-----------------------------------------------------------------------------
(* cleanup.js *)

\* the values of options.branch: null, or a string (which may be empty)
Filters ==
    {NoFilter} \cup
    {[given |-> TRUE, value |-> v] :
        v \in { <<>>, <<"b">>, <<"B", "/", "c">>, <<"/">> }}

\* branchFilter ? ... : null, the truthiness of a string-or-null
Truthy(filter) == filter.given /\ filter.value # <<>>

\* line 87: const suffix = branchFilter ? `-${sanitizeBranchName(..)}` : null
FilterSuffix(filter) ==
    IF Truthy(filter)
    THEN [set |-> TRUE, value |-> <<"-">> \o sanitizeBranchName(filter.value)]
    ELSE [set |-> FALSE, value |-> <<>>]

\* the loop body of lines 97-100 without the filter guard
Selects_NoFilterGuard(name, baseName, sfx) ==
    /\ name # baseName
    /\ StartsWith(name, baseName \o <<"-">>)

\* the loop body of lines 97-100 (111-114, 125-128): the three `continue`
\* guards that a listed name passes before it is pushed for baseName
Selects(name, baseName, sfx) ==
    /\ ~(name = baseName)
    /\ ~(~StartsWith(name, baseName \o <<"-">>))
    /\ ~(sfx.set /\ name # baseName \o sfx.value)

\* the inner loop: one listed resource against every declared base name
RECURSIVE ForBases(_, _, _)
ForBases(r, bases, sfx) ==
    IF bases = <<>> THEN <<>>
    ELSE (IF Selects(r.name, Head(bases), sfx) THEN <<r>> ELSE <<>>)
         \o ForBases(r, Tail(bases), sfx)

\* the outer loop: every listed resource, in listing order
RECURSIVE ForResources(_, _, _)
ForResources(listing, bases, sfx) ==
    IF listing = <<>> THEN <<>>
    ELSE ForBases(Head(listing), bases, sfx)
         \o ForResources(Tail(listing), bases, sfx)

\* bindings.<kind>.map(b => b.name) (b.id for KV)
BaseNames(k) == [i \in 1..Len(bindings[k]) |-> bindings[k][i].key]

\* listD1Databases / listR2Buckets / listKVNamespaces: [] when the command
\* fails or its output does not parse
Listed(k, listOk) == IF listOk[k] THEN inv[k] ELSE <<>>

\* findBranchResources(bindings, branchFilter)
findBranchResources(filter, listOk) ==
    [k \in Kinds |->
        ForResources(Listed(k, listOk), BaseNames(k), FilterSuffix(filter))]

\* the three deletion loops of cleanup() as one list, in the order they run
Flat(td) ==
    [i \in 1..Len(td["d1"]) |-> [kind |-> "d1", res |-> td["d1"][i]]]
    \o [i \in 1..Len(td["r2"]) |-> [kind |-> "r2", res |-> td["r2"][i]]]
    \o [i \in 1..Len(td["kv"]) |-> [kind |-> "kv", res |-> td["kv"][i]]]

\* totalCount
totalCount == Len(toDelete["d1"]) + Len(toDelete["r2"]) + Len(toDelete["kv"])

entry == Flat(toDelete)[cix]

\* the resources of kind k that a delete command with argument arg removes:
\* D1 and R2 are deleted by name, KV by namespace id
Hits(k, arg) ==
    {i \in 1..Len(inv[k]) :
        IF k = "kv" THEN inv[k][i].id = arg ELSE inv[k][i].name = arg}

DeleteArg(e) == IF e.kind = "kv" THEN e.res.id ELSE e.res.name

\* the next resource of the deletion loops, or the summary line
NextResource ==
    IF cix < totalCount
    THEN /\ cix' = cix + 1
         /\ cpc' = IF autoConfirm THEN "delete" ELSE "confirm"
         /\ UNCHANGED exitCode
    ELSE /\ cix' = cix
         /\ cpc' = "done"
         /\ exitCode' = 0

provOff ==
    <<run, pc, tokenSet, suffix, kindIx, idx, cur, result, creates, patches,
      patchBody, lookups, fatal, listFail, prev, configRead>>

\* cleanup(), lines 179-198: parse the config, find the branch resources,
\* return when there are none
CleanupFind ==
    /\ cpc = "start"
    /\ \E fileFound \in BOOLEAN, listOk \in [Kinds -> BOOLEAN] :
         IF ~fileFound
         THEN /\ cpc' = "exit"
              /\ exitCode' = 1
              /\ UNCHANGED <<allResources, toDelete, cix>>
         ELSE LET found == findBranchResources(branchFilter, listOk)
                  total == Len(Flat(found))
              IN  /\ allResources' = [k \in Kinds |-> Listed(k, listOk)]
                  /\ toDelete' = found
                  /\ IF total = 0
                     THEN cpc' = "done" /\ exitCode' = 0 /\ cix' = 0
                     ELSE /\ cix' = 1
                          /\ cpc' = IF autoConfirm THEN "delete" ELSE "confirm"
                          /\ UNCHANGED exitCode
    /\ UNCHANGED <<procs, callVars, apiVars, inputs, inv, nextId, tmpFiles,
                   provOff, branchFilter, autoConfirm, deletedCount,
                   skippedCount, failedCount, lastDelete, journal>>

\* the latest answer or delete outcome of the resource at hand, and how many
\* prompts were declined, delete commands went through, and failed
Logged(ev) ==
    [ix |-> cix, ev |-> ev,
     declined  |-> journal.declined + IF ev = "no" THEN 1 ELSE 0,
     succeeded |-> journal.succeeded + IF ev = "deleted" THEN 1 ELSE 0,
     failed    |-> journal.failed + IF ev = "failed" THEN 1 ELSE 0]

\* a prompt whose answer is not looked at
Confirmed_Always(answer) == TRUE

\* confirm(question), line 24: resolve(answer.toLowerCase() === 'y')
Confirmed(answer) == ToLowerChar(answer) = "y"

\* lines 229-236: the prompt; a decline skips the resource
Confirm ==
    /\ cpc = "confirm"
    /\ \E answer \in {"y", "Y", "n", ""} :
         /\ journal' = Logged(IF ToLowerChar(answer) = "y" THEN "yes"
                              ELSE "no")
         /\ IF Confirmed(answer)
            THEN /\ cpc' = "delete"
                 /\ UNCHANGED <<cix, skippedCount, exitCode>>
            ELSE /\ skippedCount' = skippedCount + 1
                 /\ NextResource
    /\ UNCHANGED <<procs, callVars, apiVars, inputs, inv, nextId, tmpFiles,
                   provOff, branchFilter, autoConfirm, allResources, toDelete,
                   deletedCount, failedCount, lastDelete>>

\* the inventory once the delete command of entry e has gone through
Without(e) ==
    [inv EXCEPT ![e.kind] =
        SelectSeq(@, LAMBDA r :
            IF e.kind = "kv" THEN r.id # DeleteArg(e)
            ELSE r.name # DeleteArg(e))]

\* deletedCount++ moved before the delete command
DeletedCountAfter_Attempt(done) == deletedCount + 1

\* line 240: deletedCount++ is reached when the delete command did not throw
DeletedCountAfter(done) == IF done THEN deletedCount + 1 ELSE deletedCount

\* the deletion loops without their try..catch: the first delete command that
\* throws rejects cleanup(), and bin/index.js exits with 1
Delete_AbortsOnFailure ==
    /\ cpc = "delete"
    /\ lastDelete' = <<entry.kind, DeleteArg(entry)>>
    /\ \E ok \in BOOLEAN :
         LET done == ok /\ Hits(entry.kind, DeleteArg(entry)) # {}
         IN  /\ journal' = Logged(IF done THEN "deleted" ELSE "failed")
             /\ inv' = IF done THEN Without(entry) ELSE inv
             /\ deletedCount' = DeletedCountAfter(done)
             /\ failedCount' = IF done THEN failedCount ELSE failedCount + 1
             /\ IF done THEN NextResource
                ELSE cpc' = "exit" /\ exitCode' = 1 /\ cix' = cix
    /\ UNCHANGED <<procs, callVars, apiVars, inputs, nextId, tmpFiles,
                   provOff, branchFilter, autoConfirm, allResources, toDelete,
                   skippedCount>>

\* deleteD1 / deleteR2 / deleteKV inside try..catch: a command that throws is
\* reported and the loop goes on. The provider has nothing to delete, and
\* fails, when the resource is no longer there.
Delete ==
    /\ cpc = "delete"
    /\ lastDelete' = <<entry.kind, DeleteArg(entry)>>
    /\ \E ok \in BOOLEAN :
         LET done == ok /\ Hits(entry.kind, DeleteArg(entry)) # {}
         IN  /\ journal' = Logged(IF done THEN "deleted" ELSE "failed")
             /\ inv' = IF done THEN Without(entry) ELSE inv
             /\ deletedCount' = DeletedCountAfter(done)
             /\ failedCount' = IF done THEN failedCount ELSE failedCount + 1
    /\ NextResource
    /\ UNCHANGED <<procs, callVars, apiVars, inputs, nextId, tmpFiles,
                   provOff, branchFilter, autoConfirm, allResources, toDelete,
                   skippedCount>>

\* every name of RemoteNames may be listed when cleanup runs
CleanPool == 1..Len(RemoteNames)

\* cleanup is started on the inventory as it is; provisioning does not run
InitCleanup ==
    /\ \/ \E focus \in Kinds :
            /\ bindings \in [Kinds -> BindingLists(MaxBind)]
            /\ \A k \in Kinds \ {focus} : bindings[k] = <<>>
            /\ inv \in [Kinds -> Listings(CleanPool, MaxRemote)]
            /\ \A k \in Kinds \ {focus} : inv[k] = <<>>
       \/ /\ bindings = OneOfEach
          /\ inv \in [Kinds -> Listings(1..2, 1)]
    /\ branch = DEFAULT_PRODUCTION_BRANCH
    /\ nextId = Len(RemoteNames) + 1
    /\ fsMigrations = FALSE
    /\ fsSeed = FALSE
    /\ configFormat = "toml"
    /\ tmpFiles = {}
    /\ run = "first"
    /\ pc = "off"
    /\ tokenSet = FALSE
    /\ configRead = "unread"
    /\ suffix = <<>>
    /\ kindIx = 1
    /\ idx = 0
    /\ cur = NoCur
    /\ result = NoResult
    /\ creates = <<>>
    /\ patches = 0
    /\ patchBody = NoBody
    /\ lookups = 0
    /\ exitCode = Running
    /\ fatal = "none"
    /\ listFail = FALSE
    /\ prev = NoPrev
    /\ account = NoAccount
    /\ publish = NoPublish
    /\ branchFilter \in Filters
    /\ autoConfirm \in BOOLEAN
    /\ allResources = NoResult
    /\ toDelete = NoResult
    /\ cpc = "start"
    /\ cix = 0
    /\ deletedCount = 0
    /\ skippedCount = 0
    /\ failedCount = 0
    /\ lastDelete = <<>>
    /\ journal = NoEvent
    /\ CallOff
    /\ procs = NoProcs

NextCleanup ==
    \/ CleanupFind
    \/ Confirm
    \/ Delete

SpecCleanup == InitCleanup /\ [][NextCleanup]_vars

-----------------------------------------------------------------------------
(* bin/index.js: the command is either provisioning or cleanup *)

InitTool == Init \/ InitCleanup

NextTool ==
    \/ Next
    \/ NextCleanup

SpecTool == InitTool /\ [][NextTool]_vars

-----------------------------------------------------------------------------
(* Two provisioning runs for one branch at the same time, and a run after
   them. Each run lists and creates on the provider's one inventory; what a
   run does once it holds its resource (migrations, PATCH) is left out. *)

\* the two runs started together
Racers == {1, 2}

\* the run started once both have ended
Later == 3

NoProc ==
    [pc |-> "idle", absent |-> FALSE, lists |-> <<>>, id |-> NoId,
     createCalls |-> 0, out |-> "none", exitCode |-> Running]

\* the kind of the one declared binding, and the name it is provisioned under
raceKind == CHOOSE k \in Kinds : bindings[k] # <<>>

raceTarget ==
    TargetName(bindings[raceKind][1],
               getBranchSuffix(branch, DEFAULT_PRODUCTION_BRANCH))

raceFrame ==
    <<bindings, branch, fsMigrations, fsSeed, configFormat, tmpFiles,
      provVars, apiVars, cleanVars, callVars>>

\* provisionD1 line 125, provisionR2 line 218, provisionKV line 250: the run's
\* own listing decides between reuse and create
RaceFind(p) ==
    /\ p \in DOMAIN procs
    /\ procs[p].pc = "find"
    /\ \E jsonOk, textOk \in BOOLEAN :
         LET listing == inv[raceKind]
             lists == ListCommands(raceKind, listing, raceTarget, jsonOk, textOk)
             got   == FindResult(raceKind, listing, raceTarget, jsonOk, textOk)
         IN  procs' = [procs EXCEPT ![p] =
                 [@ EXCEPT !.pc = IF got # NoId THEN "held" ELSE "create",
                           !.absent = ~Taken(raceKind, raceTarget),
                           !.lists = lists,
                           !.id = IF raceKind = "r2" THEN NoId ELSE got]]
    /\ UNCHANGED <<raceFrame, inv, nextId>>

\* the create command: the provider rejects a name that exists; a D1 create
\* without a parsable id goes to the second listing, a KV create without one
\* is fatal
RaceCreate(p) ==
    /\ p \in DOMAIN procs
    /\ procs[p].pc = "create"
    /\ \E out \in {"fail", "parsed", "unparsed"} :
         IF Taken(raceKind, raceTarget) \/ out = "fail"
         THEN /\ procs' = [procs EXCEPT ![p] =
                     [@ EXCEPT !.pc = "exit", !.exitCode = 1,
                               !.createCalls = @ + 1,
                               !.out = IF Taken(raceKind, raceTarget)
                                       THEN "rejected" ELSE "fail"]]
              /\ UNCHANGED <<inv, nextId>>
         ELSE LET id == IF raceKind = "d1"
                        THEN parseD1CreateOutput(
                                 [parsable |-> out = "parsed", id |-> nextId])
                        ELSE IF out = "parsed" THEN nextId ELSE NoId
                  lost == raceKind # "r2" /\ IdMissing(id)
              IN  /\ inv' = [inv EXCEPT ![raceKind] =
                                Append(@, [name |-> raceTarget, id |-> nextId])]
                  /\ nextId' = nextId + 1
                  /\ procs' = [procs EXCEPT ![p] =
                         [@ EXCEPT !.createCalls = @ + 1,
                                   !.out = "created",
                                   !.id = IF raceKind = "r2" THEN NoId ELSE id,
                                   !.pc = IF ~lost THEN "held"
                                          ELSE IF raceKind = "d1" THEN "refind"
                                          ELSE "exit",
                                   !.exitCode = IF lost /\ raceKind = "kv"
                                                THEN 1 ELSE @]]
    /\ UNCHANGED raceFrame

\* provisionD1, lines 140-148: the second listing
RaceRefind(p) ==
    /\ p \in DOMAIN procs
    /\ procs[p].pc = "refind"
    /\ \E jsonOk, textOk \in BOOLEAN :
         LET dbId == findD1Database(inv["d1"], raceTarget, jsonOk, textOk)
         IN  procs' = [procs EXCEPT ![p] =
                 [@ EXCEPT !.id = dbId,
                           !.pc = IF IdMissing(dbId) THEN "exit" ELSE "held",
                           !.exitCode = IF IdMissing(dbId) THEN 1 ELSE @]]
    /\ UNCHANGED <<raceFrame, inv, nextId>>

\* both runs have ended or hold their resource: the tool is run once more
RaceRerun ==
    /\ procs # NoProcs
    /\ procs[Later].pc = "idle"
    /\ \A p \in Racers : procs[p].pc \in {"held", "exit"}
    /\ procs' = [procs EXCEPT ![Later].pc = "find"]
    /\ UNCHANGED <<raceFrame, inv, nextId>>

\* one declared binding of one kind, a branch that gets a suffix, and an
\* inventory that may or may not hold the target name already
InitRace ==
    /\ \E focus \in Kinds :
         /\ bindings \in [Kinds -> BindingLists(1)]
         /\ bindings[focus] # <<>>
         /\ \A k \in Kinds \ {focus} : bindings[k] = <<>>
         /\ inv \in [Kinds -> Listings(ProvPool, MaxRemote)]
         /\ \A k \in Kinds \ {focus} : inv[k] = <<>>
    /\ branch \in {b \in Branches :
                      getBranchSuffix(b, DEFAULT_PRODUCTION_BRANCH) # <<>>}
    /\ nextId = Len(RemoteNames) + 1
    /\ fsMigrations = FALSE
    /\ fsSeed = FALSE
    /\ configFormat = "toml"
    /\ tmpFiles = {}
    /\ run = "first"
    /\ pc = "off"
    /\ tokenSet = FALSE
    /\ configRead = "unread"
    /\ suffix = <<>>
    /\ kindIx = 1
    /\ idx = 0
    /\ cur = NoCur
    /\ result = NoResult
    /\ creates = <<>>
    /\ patches = 0
    /\ patchBody = NoBody
    /\ lookups = 0
    /\ exitCode = Running
    /\ fatal = "none"
    /\ listFail = FALSE
    /\ prev = NoPrev
    /\ account = NoAccount
    /\ publish = NoPublish
    /\ CleanupOff
    /\ CallOff
    /\ procs = [p \in Racers \cup {Later} |->
                   IF p \in Racers THEN [NoProc EXCEPT !.pc = "find"]
                   ELSE NoProc]

NextRace ==
    \/ \E p \in Racers \cup {Later} : RaceFind(p)
    \/ \E p \in Racers \cup {Later} : RaceCreate(p)
    \/ \E p \in Racers \cup {Later} : RaceRefind(p)
    \/ RaceRerun

SpecRace == InitRace /\ [][NextRace]_vars

-----------------------------------------------------------------------------
(* branch-sanitizer.js applied to branch names *)

\* longest branch name, or tail of a long branch name
MaxLen == 3

\* longest name of the second branch
MaxOther == 1

\* a lowercase letter, an uppercase letter, a hyphen, an invalid character
Alphabet == {"a", "B", "-", "/"}

Names(n) == SeqsUpTo(Alphabet, n)

Pad(n) == [i \in 1..n |-> "a"]

\* lengths that bring the tail of a name to the limit of MaxNameLen
PadLengths == {0} \cup ((MaxNameLen - 2)..(MaxNameLen + 1))

\* CF_PAGES_BRANCH
BranchNames ==
    {Pad(n) \o t : n \in PadLengths, t \in Names(MaxLen)}
        \cup {DEFAULT_PRODUCTION_BRANCH}

\* CF_PAGES_PRODUCTION_BRANCH || 'main'
ProductionBranches == {DEFAULT_PRODUCTION_BRANCH, <<"a">>}

toolVars ==
    <<bindings, branch, inv, nextId, fsMigrations, fsSeed, configFormat,
      tmpFiles, provVars, apiVars, cleanVars, procs>>

\* the binding whose target name is derived
keyed == [binding |-> <<"B", 1>>, key |-> args.key]

\* sanitizeBranchName(branch)
CallSanitize ==
    /\ call = "none"
    /\ call' = "sanitize"
    /\ rets' = <<sanitizeBranchName(args.b)>>
    /\ UNCHANGED <<args, toolVars>>

\* sanitizeBranchName applied to a name it returned
CallSanitizeAgain ==
    /\ call = "sanitize"
    /\ call' = "sanitize twice"
    /\ rets' = Append(rets, sanitizeBranchName(rets[1]))
    /\ UNCHANGED <<args, toolVars>>

\* getBranchSuffix(branch, productionBranch)
CallSuffix ==
    /\ call = "none"
    /\ call' = "suffix"
    /\ rets' = <<getBranchSuffix(args.b, args.p)>>
    /\ UNCHANGED <<args, toolVars>>

\* `${binding.name}${suffix}` with the suffix just returned
CallTarget ==
    /\ call = "suffix"
    /\ call' = "target"
    /\ rets' = Append(rets, TargetName(keyed, rets[1]))
    /\ UNCHANGED <<args, toolVars>>

\* the target names of one binding on two branches
CallTwoBranches ==
    /\ call = "none"
    /\ call' = "two branches"
    /\ rets' = <<TargetName(keyed, getBranchSuffix(args.b, args.p)),
                 TargetName(keyed, getBranchSuffix(args.b2, args.p))>>
    /\ UNCHANGED <<args, toolVars>>

InitNaming ==
    /\ call = "none"
    /\ args \in [b : BranchNames, b2 : Names(MaxOther),
                 p : ProductionBranches, key : {K1}]
    /\ rets = <<>>
    /\ bindings = NoResult
    /\ inv = NoResult
    /\ branch = DEFAULT_PRODUCTION_BRANCH
    /\ nextId = Len(RemoteNames) + 1
    /\ fsMigrations = FALSE
    /\ fsSeed = FALSE
    /\ configFormat = "toml"
    /\ tmpFiles = {}
    /\ run = "first"
    /\ pc = "off"
    /\ tokenSet = FALSE
    /\ configRead = "unread"
    /\ suffix = <<>>
    /\ kindIx = 1
    /\ idx = 0
    /\ cur = NoCur
    /\ result = NoResult
    /\ creates = <<>>
    /\ patches = 0
    /\ patchBody = NoBody
    /\ lookups = 0
    /\ exitCode = Running
    /\ fatal = "none"
    /\ listFail = FALSE
    /\ prev = NoPrev
    /\ account = NoAccount
    /\ publish = NoPublish
    /\ CleanupOff
    /\ procs = NoProcs

NextNaming ==
    \/ CallSanitize
    \/ CallSanitizeAgain
    \/ CallSuffix
    \/ CallTarget
    \/ CallTwoBranches

SpecNaming == InitNaming /\ [][NextNaming]_vars

-----------------------------------------------------------------------------
(* Properties of provisioning *)

\* the discovery of the binding in hand obtained a listing from the provider
ListingTaken == \E i \in 1..Len(cur.lists) : cur.lists[i] = "ok"

\* every list command the discovery of the binding in hand issued has failed
NoListing == \A i \in 1..Len(cur.lists) : cur.lists[i] = "fail"

\* C1: when the listing that discovery took holds a resource named exactly
\* targetName, with identifier X, no create is invoked for the binding and
\* the identifier kept for it is X (for R2, the bucket counts as present).
C1_ReuseExisting ==
    (cur.valid /\ ListingTaken /\ cur.exactPresent) =>
        /\ pc # "create"
        /\ cur.createCalls = 0
        /\ cur.found
        /\ cur.kind # "r2" => cur.id = cur.exactId

\* C2, as claimed: the second run, on the inventory the first run left,
\* invokes no create, and what it publishes is what the first run published.
C2_SecondRunIdempotent ==
    run = "second" =>
        /\ creates = <<>>
        /\ patches > 0 => patchBody = prev.body

\* C2, amended: when no list command has failed in either run, the second
\* run invokes no create, and what it publishes is what the first run
\* published.
C2_SecondRunIdempotentWhenListed ==
    (run = "second" /\ ~prev.listFail /\ ~listFail) =>
        /\ pc # "create"
        /\ creates = <<>>
        /\ patches > 0 => patchBody = prev.body

\* C2, witness: a second run that listed without failure and has published,
\* after a first run that had to create a resource.
C2_Witness ==
    /\ run = "second"
    /\ ~prev.listFail
    /\ ~listFail
    /\ patches = 1
    /\ pc = "exit"
    /\ exitCode = 0
    /\ \E k \in Kinds : Len(inv[k]) > 0 /\ inv[k][Len(inv[k])].id > Len(RemoteNames)

\* C5: the temporary wrangler config exists only inside the migration / seed
\* step of the D1 binding that wrote it: it is gone after success, after a
\* migration failure, after a seed failure, and before the next binding.
C5_TmpConfigRemoved ==
    tmpFiles # {} => pc \in {"migrate", "seed", "finally"}

\* C6: discovery reports a resource as found only when a listed resource is
\* named exactly targetName, and the identifier it returns is that resource's.
C6_ExactNameOnly ==
    (cur.valid /\ cur.found) =>
        /\ cur.exactPresent
        /\ cur.kind # "r2" => cur.foundId = cur.exactId

\* C7: a run on the production branch without CLOUDFLARE_API_TOKEN ends as a
\* no-op with exit code 0.
C7_ProductionNeedsNoToken ==
    (pc = "exit" /\ isProductionBranch(branch, DEFAULT_PRODUCTION_BRANCH)
        /\ ~tokenSet) => exitCode = 0

\* C8: when the listing taken does not hold targetName, a D1 or KV binding
\* that has been provisioned had create invoked exactly once, and its
\* identifier is the one parsed from the create output.
C8_CreateWhenAbsent ==
    (cur.valid /\ cur.done /\ cur.kind \in {"d1", "kv"}
        /\ ListingTaken /\ ~cur.exactPresent) =>
        /\ cur.createCalls = 1
        /\ cur.parsed # NoId
        /\ cur.id = cur.parsed

\* the create command of the binding in hand has failed
CreateFailed == cur.valid /\ cur.out = "fail"

\* create succeeded but no identifier was recovered: none in its output and,
\* for D1, none from the second listing either
IdentifierLost ==
    /\ cur.valid
    /\ cur.out = "unparsed"
    /\ cur.id = NoId
    /\ pc # "refind"

\* C9: after a failed create, or a create whose identifier could not be
\* recovered, the process has exited with a non-zero code, the binding and
\* every later one are not provisioned, and no PATCH was issued.
C9_CreateFailureIsFatal ==
    (CreateFailed \/ IdentifierLost) =>
        /\ pc = "exit"
        /\ exitCode \notin {0, Running}
        /\ ~cur.done
        /\ Len(result[cur.kind]) < Len(bindings[cur.kind])
        /\ patches = 0

\* C9, witness: a KV create whose output held no id, and a failed create
C9_Witness ==
    /\ IdentifierLost
    /\ cur.kind = "kv"
    /\ pc = "exit"

\* C10: a discovery whose list commands all failed is not an error: the run
\* does not exit on it, takes the resource as not found and goes on to the
\* create of that targetName.
C10_ListingFailureIsNotFound ==
    [][pc = "find" =>
        /\ pc' # "exit"
        /\ exitCode' = Running
        /\ (\A i \in 1..Len(cur'.lists) : cur'.lists[i] = "fail") =>
              /\ pc' = "create"
              /\ ~cur'.found
              /\ cur'.target = TargetName(binding, suffix)]_vars

\* C10, witness: every list command failed and the create is about to be run
C10_Witness ==
    /\ cur.valid
    /\ NoListing
    /\ pc = "create"
    /\ cur.createCalls = 0

\* a migrations or seed command of the binding in hand has failed
CommandFailed ==
    cur.valid /\ \E i \in 1..Len(cur.cmds) : ~cur.cmds[i].ok

\* C11: once `migrations apply` or the execution of seed.sql has failed for
\* a database binding, the run is over with a non-zero exit code, the
\* binding's step has not returned, no binding of a later kind has been
\* provisioned and no PATCH has been issued.
C11_MigrationFailureIsFatal ==
    CommandFailed =>
        /\ pc = "exit"
        /\ exitCode \notin {0, Running}
        /\ ~cur.done
        /\ Len(result["d1"]) < Len(bindings["d1"])
        /\ result["r2"] = <<>> /\ result["kv"] = <<>>
        /\ patches = 0

\* C11, witness: seed.sql fails after the migrations went through, while
\* bindings of the other kinds are waiting
C11_Witness ==
    /\ CommandFailed
    /\ Len(cur.cmds) = 2
    /\ cur.cmds[1].ok
    /\ bindings["r2"] # <<>>
    /\ pc = "exit"

\* the branch is the production branch, or sanitizes to the empty name
NoOp ==
    \/ isProductionBranch(branch, DEFAULT_PRODUCTION_BRANCH)
    \/ sanitizeBranchName(branch) = <<>>

\* C16: on the production branch, and on a branch whose name sanitizes to
\* the empty name, a run issues no list, create, migration or seed command,
\* no account lookup and no PATCH, and it ends with exit code 0.
C16_DeliberateNoOps ==
    (pc # "off" /\ NoOp) =>
        /\ ~cur.valid
        /\ creates = <<>>
        /\ lookups = 0
        /\ patches = 0
        /\ pc = "exit" => exitCode = 0

\* every binding was provisioned and the PATCH was answered with success
Succeeded ==
    /\ \A k \in Kinds : Len(result[k]) = Len(bindings[k])
    /\ patches = 1
    /\ publish.sent
    /\ publish.ok

\* a fatal error of the taxonomy has occurred
FatalError ==
    \/ pc = "exit" /\ ~tokenSet
    \/ fatal = "config"
    \/ CreateFailed
    \/ IdentifierLost
    \/ CommandFailed
    \/ account.asked /\ fetchAccountId(account.response).threw
    \/ publish.sent /\ ~publish.ok

Entry(k, res) ==
    CASE k = "d1" -> [id |-> res.id]
      [] k = "r2" -> [name |-> res.name]
      [] k = "kv" -> [namespace_id |-> res.id]

\* C18: a run issues at most one PATCH, and exactly one when it ends with
\* success after provisioning; the body maps, for each kind, the binding
\* names of the kind, each once, to the identifier field of the kind.
C18_OnePatchPerRun ==
    /\ patches <= 1
    /\ (pc = "exit" /\ exitCode = 0 /\ ~NoOp) => patches = 1
    /\ patches = 1 =>
          \A k \in Kinds :
              /\ DOMAIN patchBody[k] =
                    {bindings[k][i].binding : i \in 1..Len(bindings[k])}
              /\ \A i \in 1..Len(bindings[k]) :
                    patchBody[k][bindings[k][i].binding]
                        = Entry(k, result[k][i])

\* C18, witness: the PATCH of a run with a binding of each kind
C18_Witness ==
    /\ patches = 1
    /\ pc = "exit"
    /\ exitCode = 0
    /\ \A k \in Kinds : bindings[k] # <<>>

Contains(seq, x) == \E i \in 1..Len(seq) : seq[i] = x

\* C19: when the PATCH is answered with a status that is not 2xx, the run
\* ends with a non-zero exit code and the error raised holds the status and
\* the response body.
C19_PublishFailureCarriesDetails ==
    (publish.sent /\ ~publish.net /\ ~publish.ok) =>
        /\ pc = "exit"
        /\ exitCode \notin {0, Running}
        /\ Contains(publish.error, publish.status)
        /\ Contains(publish.error, publish.body)

\* C20: the accounts endpoint is asked at most once and only when
\* CLOUDFLARE_ACCOUNT_ID is not set; the PATCH goes to the account supplied,
\* or else to the first account returned; a lookup that is not ok, or that
\* returns no account, ends the run with a non-zero exit code and no PATCH.
C20_AccountDerivation ==
    /\ lookups <= 1
    /\ lookups > 0 <=> account.asked
    /\ account.asked => account.env = ""
    /\ publish.sent =>
          publish.url = IF account.env # "" THEN account.env
                        ELSE account.response.result[1]
    /\ (account.asked
          /\ (~account.response.ok \/ account.response.result = <<>>)) =>
          /\ pc = "exit"
          /\ exitCode \notin {0, Running}
          /\ patches = 0

\* C20, witness: the PATCH after a lookup that returned two accounts
C20_Witness ==
    /\ publish.sent
    /\ account.asked
    /\ Len(account.response.result) = 2

-----------------------------------------------------------------------------
(* Properties of cleanup *)

\* findBranchResources has returned
Searched == cpc \in {"confirm", "delete", "done"}

\* C3: no resource selected for deletion bears the name of a declared
\* binding of its kind, with or without a branch filter.
C3_ProductionNeverSelected ==
    \A k \in Kinds :
        \A i \in 1..Len(toDelete[k]), j \in 1..Len(bindings[k]) :
            toDelete[k][i].name # bindings[k][j].key

\* the matching rule of the specification, for one listed name and one
\* declared resourceKey
MatchRule(name, key, filter) ==
    /\ StartsWith(name, key \o <<"-">>)
    /\ name # key
    /\ filter.given =>
          name = key \o <<"-">> \o sanitizeBranchName(filter.value)

-----------------------------------------------------------------------------
(* Properties of branch-sanitizer.js *)

Alnum ==
    {"a", "b", "c", "d", "e", "f", "g", "h", "i", "j", "k", "l", "m", "n",
     "o", "p", "q", "r", "s", "t", "u", "v", "w", "x", "y", "z",
     "0", "1", "2", "3", "4", "5", "6", "7", "8", "9"}

\* ^[a-z0-9]([a-z0-9-]{0,61}[a-z0-9])?$|^$
ValidName(s) ==
    \/ s = <<>>
    \/ /\ Len(s) <= 63
       /\ s[1] \in Alnum
       /\ s[Len(s)] \in Alnum
       /\ \A i \in 1..Len(s) : s[i] \in Alnum \cup {"-"}

\* C12: what sanitizeBranchName returns is empty, or is made of [a-z0-9-],
\* starts and ends with a letter or digit, and has at most 63 characters.
C12_SanitizedIsValid ==
    call = "sanitize" => ValidName(rets[1])

\* C12, witness: a name cut at 63 characters on a hyphen, which is stripped
C12_Witness ==
    /\ call = "sanitize"
    /\ Len(args.b) > 63
    /\ Len(rets[1]) = 62

\* C13: sanitizeBranchName returns its argument when the argument is a name
\* it returned.
C13_SanitizeIdempotent ==
    call = "sanitize twice" => rets[2] = rets[1]

\* C13, witness: the second application to a name that was cut next to a
\* hyphen
C13_Witness ==
    /\ call = "sanitize twice"
    /\ Len(args.b) > 63
    /\ Len(rets[1]) \in {61, 62}
    /\ \E i \in 1..Len(args.b) : args.b[i] \in {"-", "/"}

\* C14: the suffix is empty exactly when the branch is the production branch
\* or sanitizes to the empty name, is "-" followed by the sanitized name
\* otherwise, and the target name is the resourceKey followed by the suffix.
C14_SuffixAndTarget ==
    call = "target" =>
        /\ rets[1] = <<>> <=>
              (args.b = args.p \/ sanitizeBranchName(args.b) = <<>>)
        /\ rets[1] # <<>> => rets[1] = <<"-">> \o sanitizeBranchName(args.b)
        /\ rets[2] = args.key \o rets[1]

\* C14, witness: a branch other than production that needs sanitizing
C14_Witness ==
    /\ call = "target"
    /\ args.b # args.p
    /\ rets[1] # <<>>
    /\ rets[1] # <<"-">> \o args.b
    /\ Len(rets[2]) > Len(args.key)

\* C15: two distinct branches, none of them the production branch, give one
\* resourceKey two distinct target names. The branches looked at are those
\* that get a suffix, the ones a run provisions resources for.
C15_DistinctBranchesDistinctNames ==
    (call = "two branches" /\ args.b # args.b2
        /\ args.b # args.p /\ args.b2 # args.p
        /\ rets[1] # args.key /\ rets[2] # args.key) =>
        rets[1] # rets[2]

\* ---------------------------------------------------------------------------
\* Cleanup: confirmation, failures and the summary
\* ---------------------------------------------------------------------------

\* the latest event is a delete command
Attempted == journal.ev \in {"deleted", "failed"}

\* the state the loops are in once resource ix has been dealt with
MovedPast(ix) ==
    IF ix < totalCount
    THEN cix = ix + 1 /\ cpc \in {"confirm", "delete"}
    ELSE cpc = "done"

\* C21: without auto-confirm a delete command is issued for a resource only
\* right after the user answered yes for that very resource; any other answer
\* counts the resource as skipped and the run goes on with the next one.
C21_ConfirmationPolicy ==
    /\ [](~autoConfirm =>
            /\ cpc = "delete" => journal.ev = "yes" /\ journal.ix = cix
            /\ Attempted =>
                   LET e == Flat(toDelete)[journal.ix]
                   IN  lastDelete = <<e.kind, DeleteArg(e)>>
            /\ skippedCount = journal.declined
            /\ journal.ev = "no" => MovedPast(journal.ix))
    /\ [][(~autoConfirm /\ journal' # journal /\ Attempted') =>
            /\ journal.ev = "yes"
            /\ journal.ix = journal'.ix]_vars

\* the first resource was declined, the second confirmed and deleted
C21_Witness ==
    /\ ~autoConfirm
    /\ journal.ix = 2
    /\ journal.ev = "deleted"
    /\ journal.declined = 1
    /\ journal.succeeded = 1

\* C22: a delete command that fails does not end the run: the loops go on
\* with the next resource, every found resource of every kind is declined or
\* attempted in turn, and the run ends normally with the summary.
C22_DeleteFailureNotFatal ==
    /\ [](journal.failed > 0 => cpc # "exit" /\ exitCode \in {Running, 0})
    /\ [](journal.ev = "failed" => MovedPast(journal.ix))
    /\ []((cpc = "done" /\ totalCount > 0) =>
            /\ exitCode = 0
            /\ journal.ix = totalCount
            /\ journal.ev # "yes"
            /\ journal.declined + journal.succeeded + journal.failed
                   = totalCount)
    /\ [][journal' # journal =>
            IF journal.ev = "yes"
            THEN journal'.ix = journal.ix /\ Attempted'
            ELSE journal'.ix = journal.ix + 1]_vars

\* the first delete failed, a resource of another kind was deleted after it
C22_Witness ==
    /\ cpc = "done"
    /\ exitCode = 0
    /\ totalCount = 2
    /\ Flat(toDelete)[1].kind # Flat(toDelete)[2].kind
    /\ journal.failed = 1
    /\ journal.ev = "deleted"

\* C27: the deleted count is the number of delete commands that went
\* through, the skipped count the number of declined prompts; the two never
\* exceed the total found, and at the summary deleted, skipped and failed
\* add up to the total.
C27_SummaryAccounting ==
    /\ deletedCount = journal.succeeded
    /\ skippedCount = journal.declined
    /\ deletedCount + skippedCount <= totalCount
    /\ cpc = "done" =>
           deletedCount + skippedCount + journal.failed = totalCount

\* a summary after one deletion, one decline and one failure
C27_Witness ==
    /\ cpc = "done"
    /\ deletedCount >= 1
    /\ skippedCount >= 1
    /\ journal.failed >= 1

\* C30: no remote resource is in the deletion list of its kind twice.
C30_NoDuplicateDeletion ==
    \A k \in Kinds :
        \A i, j \in 1..Len(toDelete[k]) :
            toDelete[k][i] = toDelete[k][j] => i = j

\* ---------------------------------------------------------------------------
\* Provisioning: ordering, configuration errors, publishing
\* ---------------------------------------------------------------------------

\* every declared binding of kind k has been provisioned
Complete(k) == Len(result[k]) = Len(bindings[k])

\* provisioning of kind k has begun: a binding of the kind is at hand or done
Begun(k) == (cur.valid /\ cur.kind = k) \/ result[k] # <<>>

\* C23: no R2 binding is begun before every D1 binding is provisioned, no KV
\* binding before every D1 and R2 binding, and the account lookup and the
\* PATCH come only after all bindings of the three kinds are provisioned.
C23_ProvisioningOrder ==
    /\ Begun("r2") => Complete("d1")
    /\ Begun("kv") => Complete("d1") /\ Complete("r2")
    /\ (pc \in {"account", "patch"} \/ account.asked \/ publish.sent
            \/ patches > 0) =>
           \A k \in Kinds : Complete(k)

\* a KV namespace is about to be created after two databases and a bucket
C23_Witness ==
    /\ pc = "create"
    /\ cur.kind = "kv"
    /\ Len(result["d1"]) = 2
    /\ Len(result["r2"]) = 1

\* the run has met a configuration error
ConfigError ==
    \/ pc \notin {"getEnv", "off"} /\ ~tokenSet
    \/ configRead \in {"no file", "no name"}

\* a list, create, migration or seed command, or an HTTP request, was issued
ProviderCall ==
    \/ cur.valid
    \/ creates # <<>>
    \/ lookups > 0
    \/ account.asked
    \/ publish.sent
    \/ patches > 0

\* C24: a run without a token, without a config file, or without a project
\* name has ended with a non-zero exit code and has issued no provider
\* command and no HTTP request; whatever is issued is issued after the token
\* and the configuration were read.
C24_ConfigErrorsFirst ==
    /\ ConfigError =>
           /\ pc = "exit"
           /\ exitCode \notin {0, Running}
           /\ ~ProviderCall
    /\ ProviderCall => tokenSet /\ configRead = "ok"

\* a second run that finds no project name, after a first run that created
\* and published
C24_Witness ==
    /\ run = "second"
    /\ pc = "exit"
    /\ tokenSet
    /\ configRead = "no name"
    /\ \E k \in Kinds : inv[k] # <<>>

\* every declared resource was found, and nothing was created
AllReused ==
    /\ pc = "exit"
    /\ exitCode = 0
    /\ creates = <<>>
    /\ \E k \in Kinds : bindings[k] # <<>>
    /\ \A k \in Kinds : Complete(k)

\* C25: a run in which every resource was found and reused issues no PATCH.
C25_NoPatchWhenReused ==
    AllReused => patches = 0 /\ ~publish.sent

\* C28: for D1 and KV, a create whose output held no identifier is followed
\* by a second listing, and the identifier is fatally lost only when that
\* listing yields none either.
C28_SecondListingBeforeLoss ==
    (cur.valid /\ cur.kind \in {"d1", "kv"} /\ cur.out = "unparsed"
        /\ pc # "refind") =>
        /\ cur.relists > 0
        /\ fatal = "idloss" <=> cur.id = NoId

\* C29: the name a binding is provisioned under is the resourceKey of no
\* declared binding of the kind.
C29_TargetIsNoDeclaredKey ==
    cur.valid =>
        \A j \in 1..Len(bindings[cur.kind]) :
            cur.target # bindings[cur.kind][j].key

\* ---------------------------------------------------------------------------
\* Two runs racing between listing and create
\* ---------------------------------------------------------------------------

\* the resources of the raced kind that bear the target name
Named == {i \in 1..Len(inv[raceKind]) : inv[raceKind][i].name = raceTarget}

\* a racing run had its create rejected as a duplicate
Rejected == \E p \in Racers : procs[p].out = "rejected"

\* the later run has listed, and created if it decided to
LaterDecided == procs[Later].pc \in {"held", "exit", "refind"}

\* every list command of the later run succeeded
LaterListed == \A i \in 1..Len(procs[Later].lists) : procs[Later].lists[i] = "ok"

\* the later run holds the existing resource and has created nothing
LaterReused ==
    /\ procs[Later].pc = "held"
    /\ procs[Later].createCalls = 0
    /\ raceKind # "r2" =>
           \E i \in Named : procs[Later].id = inv[raceKind][i].id

\* C26 as stated: at most one resource bears the target name, a run whose
\* create is rejected ends with a non-zero exit code, and a run started
\* after the race reuses the resource without invoking create.
C26_RaceThenReuse ==
    procs # NoProcs =>
        /\ Cardinality(Named) <= 1
        /\ \A p \in DOMAIN procs :
               procs[p].out = "rejected" =>
                   procs[p].pc = "exit" /\ procs[p].exitCode \notin {0, Running}
        /\ (Rejected /\ LaterDecided) => LaterReused

\* C26, amended: the same, for a later run whose list commands succeed.
C26_RaceThenReuseWhenListed ==
    procs # NoProcs =>
        /\ Cardinality(Named) <= 1
        /\ \A p \in DOMAIN procs :
               procs[p].out = "rejected" =>
                   procs[p].pc = "exit" /\ procs[p].exitCode \notin {0, Running}
        /\ (Rejected /\ LaterDecided /\ LaterListed) => LaterReused

\* both runs listed before the resource existed, one created it, the other
\* was rejected, and the later run reused it
C26_Witness ==
    /\ procs # NoProcs
    /\ procs[1].absent /\ procs[2].absent
    /\ procs[1].out = "rejected"
    /\ procs[2].out = "created"
    /\ LaterListed
    /\ LaterReused

\* ---------------------------------------------------------------------------
\* The published configuration against the declarations
\* ---------------------------------------------------------------------------

\* the identifier the PATCH body holds for binding name n of kind k
Published(k, n) ==
    CASE k = "d1" -> patchBody[k][n].id
      [] k = "r2" -> patchBody[k][n].name
      [] k = "kv" -> patchBody[k][n].namespace_id

\* the identifier provisioning handed back for the i-th binding of kind k
Provisioned(k, i) ==
    IF k = "r2" THEN result[k][i].name ELSE result[k][i].id

\* binding names are unique within kind k
UniqueNames(k) ==
    \A i, j \in 1..Len(bindings[k]) :
        bindings[k][i].binding = bindings[k][j].binding => i = j

\* C31: what provisioning hands back as its i-th resource of a kind is the
\* resource it held for the i-th declared binding's resourceKey + suffix, and
\* the PATCH body maps that binding's name to this identifier; with unique
\* binding names a kind has as many entries as declared bindings.
C31_PublishedAligned ==
    /\ [](patches = 1 =>
            \A k \in Kinds :
                /\ \A i \in 1..Len(bindings[k]) :
                       /\ bindings[k][i].binding \in DOMAIN patchBody[k]
                       /\ Published(k, bindings[k][i].binding)
                              = Provisioned(k, i)
                /\ UniqueNames(k) =>
                       Cardinality(DOMAIN patchBody[k]) = Len(bindings[k]))
    /\ [][\A k \in Kinds :
            (result'[k] # result[k] /\ result'[k] # <<>>) =>
                LET i == Len(result'[k])
                IN  /\ i = Len(result[k]) + 1
                    /\ i <= Len(bindings[k])
                    /\ \A j \in 1..Len(result[k]) :
                           result'[k][j] = result[k][j]
                    /\ cur.kind = k
                    /\ cur.target =
                           TargetName(bindings[k][i],
                               getBranchSuffix(branch,
                                               DEFAULT_PRODUCTION_BRANCH))
                    /\ IF k = "r2"
                       THEN result'[k][i].name = cur.target
                       ELSE /\ result'[k][i].id = cur.id
                            /\ cur.id # NoId]_vars

\* a PATCH for two bindings of a kind that hold different resources
C31_Witness ==
    /\ patches = 1
    /\ \E k \in Kinds :
           /\ Len(bindings[k]) = 2
           /\ Published(k, bindings[k][1].binding)
                  # Published(k, bindings[k][2].binding)

\* ---------------------------------------------------------------------------
\* Migrations and seed of a database binding
\* ---------------------------------------------------------------------------

\* the positions of the binding's commands that ran cmd
RanAt(cmd) == {i \in 1..Len(cur.cmds) : cur.cmds[i].cmd = cmd}

\* C32: the migrations and the seed command of a binding run only for a
\* database whose identifier is known, and for a D1 binding only; the
\* migrations run first, once, and the seed runs only after migrations that
\* went through.
C32_MigrateThenSeed ==
    /\ (pc \in {"tmp", "migrate", "seed", "finally"} \/ cur.cmds # <<>>) =>
           /\ cur.valid
           /\ cur.kind = "d1"
           /\ cur.id # NoId
    /\ Cardinality(RanAt("migrations apply")) <= 1
    /\ Cardinality(RanAt("execute seed.sql")) <= 1
    /\ \A i \in RanAt("execute seed.sql") :
           /\ fsMigrations => RanAt("migrations apply") # {}
           /\ \A j \in RanAt("migrations apply") : j < i /\ cur.cmds[j].ok

\* the seed ran after the migrations of a database that this run created
C32_Witness ==
    /\ cur.createCalls = 1
    /\ cur.id # NoId
    /\ Len(cur.cmds) = 2
    /\ cur.cmds[1] = [cmd |-> "migrations apply", ok |-> TRUE]
    /\ cur.cmds[2].cmd = "execute seed.sql"

\* ---------------------------------------------------------------------------
\* Cleanup with the --branch option
\* ---------------------------------------------------------------------------

\* C33: when --branch is on the command line, with or without a value, every
\* selected resource is named resourceKey + "-" + sanitize(value) for a
\* declared resourceKey of its kind.
C33_BranchOptionNeverWidens ==
    (Searched /\ branchFilter.given) =>
        \A k \in Kinds :
            \A n \in 1..Len(toDelete[k]) :
                \E j \in 1..Len(bindings[k]) :
                    toDelete[k][n].name =
                        bindings[k][j].key \o <<"-">>
                            \o sanitizeBranchName(branchFilter.value)

====
